---- MODULE Spec2Model ----
(***************************************************************************)
(* Model of the validation tracker (Network, ValidationStream) of          *)
(* xrp-amendments: the validator registry kept by getUNL and by the live   *)
(* manifest handler, the name lookup they await, the ingestion and         *)
(* deduplication of validation votes, and the life cycle of the websocket  *)
(* connection that delivers them.                                          *)
(*                                                                         *)
(* Node runs every handler to its next await as one step.  An await on an  *)
(* already settled promise resumes in the microtask phase, before any      *)
(* other event is dispatched; an await on an HTTP request resumes at some  *)
(* later event.  Each action below is one such run-to-completion step.     *)
(***************************************************************************)
EXTENDS Integers, Sequences, FiniteSets, TLC

\* ------------------------------------------------------------------ bounds
NumMasters == 3      \* validator master keys in the universe
MaxSeq == 2          \* manifest sequence numbers 1..MaxSeq
MaxListSeq == 2      \* validator-list sequence numbers 1..MaxListSeq
MaxEntries == 2      \* entries of one validator list
MaxRefresh == 2      \* refreshSubscriptions() calls over one run
MaxManifests == 1    \* manifestReceived messages over one run
MaxVotes == 2        \* validationReceived messages over one run
MaxLate == 1         \* signing times 30..30+MaxLate besides 0
MaxSweepVotes == 3   \* validationReceived messages where only the sweep is studied
MaxCalls == 3        \* refreshSubscriptions() calls where they follow one another
MaxStartupSeq == 3   \* validator-list sequence numbers of those calls

\* ------------------------------------------------------- program constants
delete_from_dedup_after_seconds == 30

\* ------------------------------------------------------------- identities
\* Hex public keys are small naturals: master keys 1..NumMasters, and the
\* signing key that master h announces in its manifest number s.
MasterHex == 1..NumMasters
SigningPubKey(h, s) == NumMasters + (h - 1) * MaxSeq + s

\* ripple-address-codec's encodeNodePublic: an injective re-encoding of
\* the key bytes; base58 identities are kept apart from hex ones.
hexToBase58(hex) == 100 + hex

Masters == {hexToBase58(h) : h \in MasterHex}
SigningKeys == {hexToBase58(SigningPubKey(h, s)) : h \in MasterHex, s \in 1..MaxSeq}

\* ------------------------------------------------------- object helpers
\* JavaScript objects used as maps: functions on the set of their keys.
EmptyMap == [k \in {} |-> 0]
Has(obj, k) == k \in DOMAIN obj
Put(obj, k, v) == [x \in (DOMAIN obj) \cup {k} |-> IF x = k THEN v ELSE obj[x]]
Delete(obj, k) == [x \in (DOMAIN obj) \ {k} |-> obj[x]]
DeleteAll(obj, ks) == [x \in (DOMAIN obj) \ ks |-> obj[x]]
Range(seq) == {seq[i] : i \in DOMAIN seq}

\* obj[k] of JavaScript: the value, or undefined.
undefined == 0
Get(obj, k) == IF k \in DOMAIN obj THEN obj[k] ELSE undefined


\* ------------------------------------------------------------------ state
VARIABLES
  validators,                \* Network.validators: master_key -> {signing_key, Sequence}
  manifestKeys,              \* Network.manifestKeys: signing_key -> master_key
  lastValidatorListSequence, \* Network.lastValidatorListSequence
  names,                     \* Network.names: master_key -> display name
  attempted,                 \* Network.attempted (used as a set)
  require_master_key,        \* Network.require_master_key
  connected,                 \* connect() has run: the dedup_clear interval is armed
  refresh,                   \* the refreshSubscriptions() calls, by number
  handlers,                  \* the onManifestReceived calls, by number
  dedup_validations_set,     \* Network.dedup_validations_set
  dedup_last_signing_time,   \* Network.dedup_last_signing_time
  nVotes,                    \* validationReceived messages handled so far
  streams,                   \* the ValidationStream objects, by the refresh that made them
  validationStreams,         \* Network.validationStreams[address]: a stream number, or 0
  unlData,                   \* the onUnlData call of the last step, if any
  delivered,                 \* the onValidationReceived call of the last step, if any
  ev,                        \* the event the last step handled
  maxSeen,                   \* history: per known master, the largest Sequence offered
  latest,                    \* history: the membership of the last accepted list
  deliveries,                \* history: per message, the streams whose copy was forwarded
                             \*          since a sweep last forgot its fingerprint
  notified                   \* history: per master, the Sequence of the last onUnlData call

registry == <<validators, manifestKeys, lastValidatorListSequence>>
nameCache == <<names, attempted>>
dedup == <<dedup_validations_set, dedup_last_signing_time, nVotes>>
conn == <<streams, validationStreams>>
vars == <<validators, manifestKeys, lastValidatorListSequence, names, attempted,
          require_master_key, connected, refresh, handlers,
          dedup_validations_set, dedup_last_signing_time, nVotes,
          streams, validationStreams, unlData, delivered, ev, maxSeen, latest,
          deliveries, notified>>

\* ------------------------------------------------------------ name lookup
\* validator-names.json, loaded into Network.names by the constructor: the
\* first master key has a cached name, the others have none.
NameOf(m) == 1000 + m
PreCachedNames == [m \in {hexToBase58(1)} |-> NameOf(m)]

\* A faulty variant, for comparison: fetchName without its attempted guard.
fetchNameCall_unguarded(nm, att, m) ==
  IF ~Has(nm, m) THEN [wait |-> "http", name |-> 0]
  ELSE [wait |-> "micro", name |-> nm[m]]

\* fetchName up to its return or its HTTP request: the promise it returns is
\* settled at once ("micro", with the value in name) or when the Data API
\* answers ("http").  The caller adds m to attempted.
fetchNameCall(nm, att, m) ==
  IF m \in att THEN [wait |-> "micro", name |-> m]
  ELSE IF ~Has(nm, m) THEN [wait |-> "http", name |-> 0]
  ELSE [wait |-> "micro", name |-> nm[m]]

\* The Data API's answers: a record with a domain, one without, a failure.
ApiOutcomes == {"domain", "nodomain", "failed"}

\* names after the request's then/catch handlers ran.
fetchNameStore(nm, m, outcome) ==
  IF outcome = "domain" THEN Put(nm, m, NameOf(m)) ELSE nm

\* The value the promise of an "http" fetchName settles with.
fetchNameResult(m, outcome) ==
  IF outcome = "domain" THEN NameOf(m) ELSE m

\* ----------------------------------------------------------- async calls
\* A suspended async call: where it is, how its pending await resumes, and
\* the locals it holds across the await.
Idle ==
  [pc |-> "idle", wait |-> "none", list |-> <<>>, toDelete |-> {},
   isDuringStartup |-> FALSE, cur |-> <<>>, name |-> 0]

\* Some call waits in the microtask queue: it runs before any other event.
MicroPending ==
  \/ \E r \in DOMAIN refresh : refresh[r].wait = "micro"
  \/ \E h \in DOMAIN handlers : handlers[h].wait = "micro"

\* ------------------------------------------------------- validator lists
\* A manifest as codec.decode returns it, and an entry of the list.
ManifestsOf(h) ==
  {[SigningPubKey |-> SigningPubKey(h, s), Sequence |-> s] : s \in 1..MaxSeq}
Entries ==
  UNION {{[validation_public_key |-> h, manifest |-> mf] : mf \in ManifestsOf(h)}
         : h \in MasterHex}
\* An entry whose manifest codec.decode cannot decode: decode throws.
MalformedManifest == [SigningPubKey |-> 0, Sequence |-> 0]
Decodes(mf) == mf # MalformedManifest
MalformedEntries ==
  {[validation_public_key |-> h, manifest |-> MalformedManifest] : h \in MasterHex}
\* A published list names each validator once.
EntryLists ==
  {l \in UNION {[1..n -> Entries] : n \in 0..MaxEntries} :
     \A i, j \in DOMAIN l :
       l[i].validation_public_key = l[j].validation_public_key => i = j}
Members(l) == {hexToBase58(l[i].validation_public_key) : i \in DOMAIN l}
\* The decoded blob of the validator list site.
ValidatorLists ==
  {[sequence |-> q, validators |-> l] : q \in 1..MaxListSeq, l \in EntryLists}

\* A faulty variant, for comparison: an entry with the stored Sequence counts as a later manifest.
EntryApplies_orEqual(v, e) ==
  LET m == hexToBase58(e.validation_public_key)
  IN  ~Has(v, m) \/ v[m].Sequence <= e.manifest.Sequence

\* The test of getUNL's loop body: the entry is new or has a later manifest.
EntryApplies(v, e) ==
  LET m == hexToBase58(e.validation_public_key)
  IN  ~Has(v, m) \/ v[m].Sequence < e.manifest.Sequence

\* How many leading entries the loop passes over without a change.
RECURSIVE Skipped(_, _)
Skipped(v, list) ==
  IF list = <<>> \/ ~Decodes(list[1].manifest) \/ EntryApplies(v, list[1]) THEN 0
  ELSE 1 + Skipped(v, Tail(list))

\* History: the largest Sequence offered for each master in the table.
RECURSIVE OfferAll(_, _)
OfferAll(ms, entries) ==
  IF entries = <<>> THEN ms
  ELSE LET m == hexToBase58(entries[1].validation_public_key)
           q == entries[1].manifest.Sequence
       IN  OfferAll(Put(ms, m, IF Has(ms, m) /\ ms[m] > q THEN ms[m] ELSE q),
                    Tail(entries))

\* getUNL's for loop from `list` on, up to its next await, to the entry whose
\* manifest does not decode (the exception rejects getUNL's promise), or to
\* the end of getUNL.  mk and nm are manifestKeys and names as the step has
\* them so far.
getUNLLoop(r, mk, nm, list, td, startup, evtype, doc) ==
  LET k == Skipped(validators, list)
      passed == SubSeq(list, 1, k)
      rest == SubSeq(list, k + 1, Len(list))
      td1 == td \ {hexToBase58(passed[i].validation_public_key) : i \in 1..k}
  IN  IF rest = <<>>
      THEN /\ validators' = DeleteAll(validators, td1)
           /\ manifestKeys' = mk
           /\ names' = nm
           /\ attempted' = attempted
           /\ refresh' = [refresh EXCEPT ![r] =
                            [Idle EXCEPT !.pc = "subscribe", !.wait = "micro"]]
           /\ maxSeen' = DeleteAll(OfferAll(maxSeen, passed), td1)
           /\ ev' = [type |-> evtype, r |-> r, doc |-> doc, passed |-> passed,
                     applied |-> <<>>, removed |-> td1, finished |-> TRUE,
                     threw |-> FALSE]
      ELSE IF ~Decodes(rest[1].manifest)
      THEN /\ validators' = validators
           /\ manifestKeys' = mk
           /\ names' = nm
           /\ attempted' = attempted
           /\ refresh' = [refresh EXCEPT ![r] = [Idle EXCEPT !.pc = "failed"]]
           /\ maxSeen' = OfferAll(maxSeen, passed)
           /\ ev' = [type |-> evtype, r |-> r, doc |-> doc, passed |-> passed,
                     applied |-> <<>>, removed |-> {}, finished |-> FALSE,
                     threw |-> TRUE]
      ELSE LET e == rest[1]
               m == hexToBase58(e.validation_public_key)
               signing_key == hexToBase58(e.manifest.SigningPubKey)
               Sequence == e.manifest.Sequence
               isNew == ~Has(validators, m)
               call == fetchNameCall(nm, attempted, m)
           IN  /\ validators' = Put(validators, m,
                                    [signing_key |-> signing_key,
                                     Sequence |-> Sequence])
               /\ manifestKeys' = mk
               /\ names' = nm
               /\ attempted' = attempted \cup {m}
               /\ refresh' = [refresh EXCEPT ![r] =
                    [pc |-> "fetchName", wait |-> call.wait,
                     list |-> Tail(rest), toDelete |-> td1 \ {m},
                     isDuringStartup |-> startup,
                     cur |-> <<[isDuringStartup |-> startup,
                                isNewValidator |-> isNew,
                                isNewManifest |-> TRUE,
                                validation_public_key_base58 |-> m,
                                signing_key |-> signing_key,
                                Sequence |-> Sequence,
                                isFromManifestsStream |-> FALSE]>>,
                     name |-> call.name]]
               /\ maxSeen' = OfferAll(maxSeen, Append(passed, e))
               /\ ev' = [type |-> evtype, r |-> r, doc |-> doc, passed |-> passed,
                         applied |-> <<e>>, removed |-> {}, finished |-> FALSE,
                         threw |-> FALSE]

\* The onUnlData call made when the awaited name arrives.
UnlDataCall(cur, validatorName) ==
  [isDuringStartup |-> cur.isDuringStartup,
   isNewValidator |-> cur.isNewValidator,
   isNewManifest |-> cur.isNewManifest,
   validatorName |-> validatorName,
   validation_public_key_base58 |-> cur.validation_public_key_base58,
   signing_key |-> cur.signing_key,
   Sequence |-> cur.Sequence,
   isFromManifestsStream |-> cur.isFromManifestsStream]

\* ---------------------------------------------------------------- streams
\* Heartbeat options of ValidationStream, in ticks of the model's clock
\* (serverPingInterval = 30000 ms, latency = 1000 ms in the source).
serverPingInterval == 2
latency == 1

\* A ValidationStream: the socket's readyState, the two timers (ticks left,
\* -1 when not set), the subscribe acks, whether the server owes a pong to
\* a ping sent, and the onClose calls it has made.
NoStream ==
  [state |-> "none", useHeartbeat |-> FALSE, pingInterval |-> -1,
   pingTimeout |-> -1, requestSuccessIds |-> <<>>, terminated |-> FALSE,
   pongDue |-> FALSE, closes |-> <<>>]

\* new ValidationStream(...): the socket starts connecting; with heartbeat
\* the ping interval is set at once.
NewStream(useHeartbeat) ==
  [NoStream EXCEPT !.state = "CONNECTING", !.useHeartbeat = useHeartbeat,
                   !.pingInterval = IF useHeartbeat THEN serverPingInterval ELSE -1]

\* A faulty variant, for comparison: the deadline leaves no room for latency.
heartbeat_noLatency(st) == [st EXCEPT !.pingTimeout = serverPingInterval]

\* heartbeat(): clear the deadline timer and set it anew.
heartbeat(st) == [st EXCEPT !.pingTimeout = serverPingInterval + latency]

\* A faulty variant, for comparison: WebSocket#close(), the graceful closing handshake.
terminate_graceful(st) ==
  [st EXCEPT !.state = IF st.state \in {"CONNECTING", "OPEN"} THEN "CLOSING"
                       ELSE st.state]

\* WebSocket#terminate(): the socket is destroyed; its 'close' event follows.
terminate(st) ==
  [st EXCEPT !.state = IF st.state \in {"CONNECTING", "OPEN"} THEN "CLOSING"
                       ELSE st.state,
             !.terminated = TRUE]

\* A faulty variant, for comparison: the registration outlives the stream's onClose.
onCloseAddress_keep(vs) == vs

\* onCloseAddress: whatever stream is registered under the address goes.
onCloseAddress(vs) == IF vs # 0 THEN 0 ELSE vs

\* A faulty variant, for comparison: the heartbeat's 'close' handler calls onClose as well.
CloseHandlers_both(st) ==
  IF st.useHeartbeat THEN <<"close", "close">> ELSE <<"close">>

\* The onClose calls of the socket's 'close' event: the heartbeat's handler
\* only clears the timers, the other handler calls onClose({code, reason}).
CloseHandlers(st) == <<"close">>

\* The stream's onClose callback is called with each of `causes`.
CallOnClose(s, st, causes) ==
  /\ streams' = [streams EXCEPT ![s] = [st EXCEPT !.closes = @ \o causes]]
  /\ validationStreams' = IF causes = <<>> THEN validationStreams
                          ELSE onCloseAddress(validationStreams)

\* ------------------------------------------------------------------ votes
SigningTimes == {0} \cup {delete_from_dedup_after_seconds + i : i \in 0..MaxLate}
\* Keys a vote is signed with: the signing keys of the first master, and its
\* master key (a validator that uses no manifest).
VoteKeys == {hexToBase58(SigningPubKey(1, s)) : s \in 1..MaxSeq} \cup {hexToBase58(1)}
\* validationReceived messages; amendments is the optional field, the
\* ledger, flags and signature are those of one ledger.
ValidationMessages ==
  [type : {"validationReceived"}, amendments : {"absent", "present"},
   flags : {1}, ledger_hash : {1}, ledger_index : {1}, signature : {1},
   signing_time : SigningTimes, validation_public_key : VoteKeys]

\* JSON.stringify of a message: every field of it, in the order received.
stringify(msg) ==
  <<msg.type, msg.amendments, msg.flags, msg.ledger_hash, msg.ledger_index,
    msg.signature, msg.signing_time, msg.validation_public_key>>
\* JSON.parse(value).signing_time
parsedSigningTime(value) == value[7]

\* A faulty variant, for comparison: every vote is taken as not seen before.
NotSeen_always(set, msg) == TRUE

\* The test of the ingestion handler for a vote not seen before.
NotSeen(set, msg) == stringify(msg) \notin set

\* A faulty variant, for comparison: no vote is dropped for its key.
Rejected_never(rmk, mk, msg) == FALSE

\* The test of the ingestion handler that drops a vote unheard.
Rejected(rmk, mk, msg) == rmk /\ ~Has(mk, msg.validation_public_key)

\* A faulty variant, for comparison: a vote whose key the index resolves counts as on the list.
isOnUNL_resolved(v, master_key) == master_key # undefined

\* isOnUNL of the enriched vote.
isOnUNL(v, master_key) == Has(v, master_key)

\* The enriched vote handed to the consumer.
Enriched(v, mk, nm, msg) ==
  LET master_key == Get(mk, msg.validation_public_key)
      nameKey == IF master_key # undefined THEN master_key
                 ELSE msg.validation_public_key
  IN  [msg |-> msg, validatorName |-> Get(nm, nameKey),
       master_key |-> master_key, isOnUNL |-> isOnUNL(v, master_key)]

\* A faulty variant, for comparison: the watermark follows the vote just handled.
Advance_toLatest(last, signing_time) == signing_time

\* The watermark after a vote that was not dropped unheard.
Advance(last, signing_time) == IF last < signing_time THEN signing_time ELSE last

\* A faulty variant, for comparison: a fingerprint just a window old is swept as well.
dedup_clear_orEqual(set, last) ==
  {value \in set :
     ~(parsedSigningTime(value) + delete_from_dedup_after_seconds <= last)}

\* dedup_clear: what the sweep keeps.
dedup_clear(set, last) ==
  {value \in set :
     ~(parsedSigningTime(value) + delete_from_dedup_after_seconds < last)}

\* ------------------------------------------------------------------- Init
\* The state after `new Network(options)`.
Init ==
  /\ validators = EmptyMap
  /\ manifestKeys = EmptyMap
  /\ lastValidatorListSequence = 0
  /\ names = PreCachedNames
  /\ attempted = {}
  /\ require_master_key \in BOOLEAN
  /\ connected = FALSE
  /\ refresh = [r \in 1..MaxCalls |-> Idle]
  /\ handlers = [h \in 1..MaxManifests |-> Idle]
  /\ dedup_validations_set = {}
  /\ dedup_last_signing_time = 0
  /\ nVotes = 0
  /\ streams = [r \in 1..MaxCalls |-> NoStream]
  /\ validationStreams = 0
  /\ unlData = <<>>
  /\ delivered = <<>>
  /\ ev = [type |-> "init"]
  /\ maxSeen = EmptyMap
  /\ latest = {}
  /\ deliveries = EmptyMap
  /\ notified = EmptyMap

\* No consumer callback is called in this step.
Silent == unlData' = <<>> /\ delivered' = <<>> /\ notified' = notified

\* ------------------------------------------------------ refreshSubscriptions
\* connect(): the first refreshSubscriptions() and the dedup_clear interval.
Connect ==
  /\ ~connected
  /\ connected' = TRUE
  /\ refresh' = [refresh EXCEPT ![1] = [Idle EXCEPT !.pc = "getUNL", !.wait = "http"]]
  /\ ev' = [type |-> "connect"]
  /\ Silent
  /\ UNCHANGED <<registry, nameCache, require_master_key, handlers, dedup, conn, maxSeen, latest, deliveries>>

\* A later refreshSubscriptions() call; it may overlap an earlier one.
RefreshSubscriptions(r) ==
  /\ connected /\ ~MicroPending
  /\ r > 1 /\ refresh[r].pc = "idle" /\ refresh[r - 1].pc # "idle"
  /\ refresh' = [refresh EXCEPT ![r] = [Idle EXCEPT !.pc = "getUNL", !.wait = "http"]]
  /\ ev' = [type |-> "refresh", r |-> r]
  /\ Silent
  /\ UNCHANGED <<registry, nameCache, require_master_key, connected, handlers,
                 dedup, conn, maxSeen, latest, deliveries>>

\* A faulty variant, for comparison: a list with the last accepted sequence is taken as new.
NothingNew_strict(sequence, last) == sequence < last

\* The test that makes getUNL return early: nothing new in the list.
NothingNew(sequence, last) == sequence <= last

\* getUNL: the validator list site answers with `validatorList`.
GetUNLResponse(r, validatorList) ==
  /\ ~MicroPending
  /\ refresh[r].pc = "getUNL"
  /\ IF NothingNew(validatorList.sequence, lastValidatorListSequence)
     THEN /\ refresh' = [refresh EXCEPT ![r] =
                           [Idle EXCEPT !.pc = "subscribe", !.wait = "micro"]]
          /\ ev' = [type |-> "unlResponse", r |-> r, doc |-> <<validatorList>>,
                    passed |-> <<>>, applied |-> <<>>, removed |-> {},
                    finished |-> TRUE, threw |-> FALSE]
          /\ UNCHANGED <<registry, nameCache, maxSeen, latest>>
     ELSE /\ lastValidatorListSequence' = validatorList.sequence
          /\ latest' = Members(validatorList.validators)
          /\ getUNLLoop(r, manifestKeys, names, validatorList.validators,
                        DOMAIN validators, DOMAIN validators = {}, "unlResponse",
                        <<validatorList>>)
  /\ Silent
  /\ UNCHANGED <<require_master_key, connected, handlers, dedup, conn, deliveries>>

\* getUNL: the request fails, or the blob is not a validator list.
GetUNLFailed(r) ==
  /\ ~MicroPending
  /\ refresh[r].pc = "getUNL"
  /\ refresh' = [refresh EXCEPT ![r] = [Idle EXCEPT !.pc = "failed"]]
  /\ ev' = [type |-> "unlFailed", r |-> r]
  /\ Silent
  /\ UNCHANGED <<registry, nameCache, require_master_key, connected, handlers,
                 dedup, conn, maxSeen, latest, deliveries>>

\* getUNL after `await this.fetchName(...)`: onUnlData, the index entry of
\* the new signing key, and the loop's next entries.
GetUNLAfterName(r, nm, validatorName, evtype) ==
  LET cur == refresh[r].cur[1]
  IN  /\ unlData' = <<UnlDataCall(cur, validatorName)>>
      /\ notified' = Put(notified, cur.validation_public_key_base58, cur.Sequence)
      /\ delivered' = <<>>
      /\ getUNLLoop(r,
                    Put(manifestKeys, cur.signing_key, cur.validation_public_key_base58),
                    nm, refresh[r].list, refresh[r].toDelete,
                    refresh[r].isDuringStartup, evtype, <<>>)
      /\ UNCHANGED <<lastValidatorListSequence, require_master_key, connected,
                     handlers, dedup, conn, latest, deliveries>>

\* The awaited name was known at the call: getUNL goes on in the microtask.
GetUNLResume(r) ==
  /\ refresh[r].pc = "fetchName" /\ refresh[r].wait = "micro"
  /\ GetUNLAfterName(r, names, refresh[r].name, "unlResume")

\* The Data API answers (or fails) the name request getUNL waits for.
GetUNLNameResponse(r, outcome) ==
  /\ ~MicroPending
  /\ refresh[r].pc = "fetchName" /\ refresh[r].wait = "http"
  /\ LET m == refresh[r].cur[1].validation_public_key_base58
     IN  GetUNLAfterName(r, fetchNameStore(names, m, outcome),
                         fetchNameResult(m, outcome), "unlResume")

\* subscribeToRippleds: a stream is made unless one is registered.  The
\* heartbeat option of the stream is an input of the stream's constructor.
SubscribeToRippleds(r, useHeartbeat) ==
  /\ refresh[r].pc = "subscribe" /\ refresh[r].wait = "micro"
  /\ refresh' = [refresh EXCEPT ![r] = [Idle EXCEPT !.pc = "done"]]
  /\ IF validationStreams = 0
     THEN /\ streams' = [streams EXCEPT ![r] = NewStream(useHeartbeat)]
          /\ validationStreams' = r
     ELSE /\ useHeartbeat = FALSE
          /\ UNCHANGED conn
  /\ ev' = [type |-> "subscribe", r |-> r]
  /\ Silent
  /\ UNCHANGED <<registry, nameCache, require_master_key, connected, handlers,
                 dedup, maxSeen, latest, deliveries>>

\* ---------------------------------------------------------- live manifests
ManifestMessages ==
  {[type |-> "manifestReceived", master_key |-> hexToBase58(h),
    signing_key |-> hexToBase58(SigningPubKey(h, q)), seq |-> q]
   : h \in MasterHex, q \in 1..MaxSeq}

\* A faulty variant, for comparison: any manifest of a known master is applied.
ManifestApplies_anySeq(v, msg) == Has(v, msg.master_key)

\* A faulty variant, for comparison: a manifest with the stored Sequence is applied again.
ManifestApplies_orEqual(v, msg) ==
  Has(v, msg.master_key) /\ v[msg.master_key].Sequence <= msg.seq

\* The test of onManifestReceived: a known master and a later manifest.
ManifestApplies(v, msg) ==
  Has(v, msg.master_key) /\ v[msg.master_key].Sequence < msg.seq

\* A message of an open socket can be dispatched.
CanReceive(s) == ~MicroPending /\ streams[s].state = "OPEN"

\* onManifestReceived up to its await.
OnManifestReceived(s, h, msg) ==
  /\ CanReceive(s)
  /\ handlers[h].pc = "idle" /\ (h > 1 => handlers[h - 1].pc # "idle")
  /\ IF ManifestApplies(validators, msg)
     THEN LET call == fetchNameCall(names, attempted, msg.master_key)
          IN  /\ manifestKeys' =
                   Put(Delete(manifestKeys, validators[msg.master_key].signing_key),
                       msg.signing_key, msg.master_key)
              /\ validators' = Put(validators, msg.master_key,
                                   [signing_key |-> msg.signing_key,
                                    Sequence |-> msg.seq])
              /\ attempted' = attempted \cup {msg.master_key}
              /\ handlers' = [handlers EXCEPT ![h] =
                   [Idle EXCEPT !.pc = "fetchName", !.wait = call.wait,
                      !.cur = <<[isDuringStartup |-> FALSE,
                                 isNewValidator |-> FALSE,
                                 isNewManifest |-> TRUE,
                                 validation_public_key_base58 |-> msg.master_key,
                                 signing_key |-> msg.signing_key,
                                 Sequence |-> msg.seq,
                                 isFromManifestsStream |-> TRUE]>>,
                      !.name = call.name]]
     ELSE /\ handlers' = [handlers EXCEPT ![h] = [Idle EXCEPT !.pc = "done"]]
          /\ UNCHANGED <<validators, manifestKeys, attempted>>
  /\ maxSeen' = IF Has(maxSeen, msg.master_key) /\ maxSeen[msg.master_key] < msg.seq
                THEN Put(maxSeen, msg.master_key, msg.seq) ELSE maxSeen
  /\ ev' = [type |-> "manifest", s |-> s, h |-> h, msg |-> msg]
  /\ Silent
  /\ UNCHANGED <<lastValidatorListSequence, names, require_master_key, connected,
                 refresh, dedup, conn, latest, deliveries>>

\* onManifestReceived after its await: the onUnlData call.
ManifestAfterName(h, nm, validatorName) ==
  /\ unlData' = <<UnlDataCall(handlers[h].cur[1], validatorName)>>
  /\ notified' = Put(notified, handlers[h].cur[1].validation_public_key_base58,
                     handlers[h].cur[1].Sequence)
  /\ delivered' = <<>>
  /\ names' = nm
  /\ handlers' = [handlers EXCEPT ![h] = [Idle EXCEPT !.pc = "done"]]
  /\ ev' = [type |-> "manifestResume", h |-> h]
  /\ UNCHANGED <<registry, attempted, require_master_key, connected, refresh,
                 dedup, conn, maxSeen, latest, deliveries>>

ManifestResume(h) ==
  /\ handlers[h].pc = "fetchName" /\ handlers[h].wait = "micro"
  /\ ManifestAfterName(h, names, handlers[h].name)

\* Every identity in validators was put there by getUNL in the same
\* synchronous step that pushed it onto attempted, so the fetchName call of
\* onManifestReceived always returns at once and never waits for the Data API.
ManifestNameIsSettled ==
  \A h \in 1..MaxManifests :
     handlers[h].pc = "fetchName" => handlers[h].wait = "micro"

\* ------------------------------------------------------------ ingestion
\* The stream's onValidationReceived callback, as subscribeToRippleds sets it.
OnValidationReceived(s, msg) ==
  /\ CanReceive(s)
  /\ nVotes < MaxSweepVotes
  /\ nVotes' = nVotes + 1
  /\ ev' = [type |-> "vote", s |-> s, msg |-> msg]
  /\ unlData' = <<>>
  /\ notified' = notified
  /\ IF Rejected(require_master_key, manifestKeys, msg)
     THEN /\ delivered' = <<>>
          /\ UNCHANGED <<dedup_validations_set, dedup_last_signing_time, deliveries>>
     ELSE /\ IF NotSeen(dedup_validations_set, msg)
             THEN /\ dedup_validations_set' = dedup_validations_set \cup {stringify(msg)}
                  /\ delivered' = <<Enriched(validators, manifestKeys, names, msg)>>
                  /\ deliveries' = Put(deliveries, msg,
                                        IF Has(deliveries, msg)
                                        THEN Append(deliveries[msg], s) ELSE <<s>>)
             ELSE /\ delivered' = <<>>
                  /\ UNCHANGED <<dedup_validations_set, deliveries>>
          /\ dedup_last_signing_time' = Advance(dedup_last_signing_time, msg.signing_time)
  /\ UNCHANGED <<registry, nameCache, require_master_key, connected, refresh,
                 handlers, conn, maxSeen, latest>>

\* The interval set by connect() fires dedup_clear.
DedupClear ==
  /\ connected /\ ~MicroPending
  /\ dedup_validations_set' = dedup_clear(dedup_validations_set, dedup_last_signing_time)
  /\ deliveries' = DeleteAll(deliveries,
                             {msg \in DOMAIN deliveries :
                                stringify(msg) \notin dedup_validations_set'})
  /\ ev' = [type |-> "dedup_clear"]
  /\ Silent
  /\ UNCHANGED <<registry, nameCache, require_master_key, connected, refresh,
                 handlers, dedup_last_signing_time, nVotes, conn, maxSeen, latest>>

\* ------------------------------------------------------- socket events
StreamFrame ==
  UNCHANGED <<registry, nameCache, require_master_key, connected, refresh,
              handlers, dedup, maxSeen, latest, deliveries>>

\* 'open': the heartbeat deadline is set and the subscribe request is sent.
WsOpen(s) ==
  /\ ~MicroPending
  /\ streams[s].state = "CONNECTING"
  /\ LET opened == [streams[s] EXCEPT !.state = "OPEN"]
     IN  streams' = [streams EXCEPT ![s] =
                       IF opened.useHeartbeat THEN heartbeat(opened) ELSE opened]
  /\ ev' = [type |-> "open", s |-> s]
  /\ Silent
  /\ UNCHANGED validationStreams
  /\ StreamFrame

\* 'ping': the server's ping resets the deadline.
WsPing(s) ==
  /\ CanReceive(s)
  /\ streams[s].useHeartbeat
  /\ streams' = [streams EXCEPT ![s] = heartbeat(@)]
  /\ ev' = [type |-> "ping", s |-> s]
  /\ Silent
  /\ UNCHANGED validationStreams
  /\ StreamFrame

\* 'error': logged; the socket is on its way to 'close'.
WsError(s) ==
  /\ ~MicroPending
  /\ streams[s].state \in {"CONNECTING", "OPEN"}
  /\ streams' = [streams EXCEPT ![s].state = "CLOSING"]
  /\ ev' = [type |-> "error", s |-> s]
  /\ Silent
  /\ UNCHANGED validationStreams
  /\ StreamFrame

\* 'close': the heartbeat's handler clears the timers, then onClose is
\* called with the close code and reason.
WsClose(s) ==
  /\ ~MicroPending
  /\ streams[s].state \in {"OPEN", "CLOSING"}
  /\ CallOnClose(s, [streams[s] EXCEPT !.state = "CLOSED", !.pingInterval = -1,
                                       !.pingTimeout = -1, !.pongDue = FALSE],
                 CloseHandlers(streams[s]))
  /\ ev' = [type |-> "close", s |-> s]
  /\ Silent
  /\ StreamFrame

\* 'message' with a successful response to the subscribe request.
WsResponse(s) ==
  /\ CanReceive(s)
  /\ Len(streams[s].requestSuccessIds) < 1
  /\ streams' = [streams EXCEPT ![s].requestSuccessIds = Append(@, 1)]
  /\ ev' = [type |-> "response", s |-> s]
  /\ Silent
  /\ UNCHANGED validationStreams
  /\ StreamFrame

\* 'message' with error unknownStream: terminate, then onClose with an Error.
WsUnknownStream(s) ==
  /\ CanReceive(s)
  /\ CallOnClose(s, terminate(streams[s]), <<"unknownStream">>)
  /\ ev' = [type |-> "unknownStream", s |-> s]
  /\ Silent
  /\ StreamFrame

\* 'pong': the server's reply to a ping sent; the stream has no handler for
\* it, so nothing but the socket's own bookkeeping changes.
WsPong(s) ==
  /\ CanReceive(s)
  /\ streams[s].pongDue
  /\ streams' = [streams EXCEPT ![s].pongDue = FALSE]
  /\ ev' = [type |-> "pong", s |-> s]
  /\ Silent
  /\ UNCHANGED validationStreams
  /\ StreamFrame

\* The ping interval fires: a ping goes out (on an open socket) and the
\* interval runs on.
PingIntervalFire(s) ==
  /\ ~MicroPending
  /\ streams[s].pingInterval = 0
  /\ streams' = [streams EXCEPT ![s].pingInterval = serverPingInterval,
                                ![s].pongDue = (@ \/ streams[s].state = "OPEN")]
  /\ ev' = [type |-> "pingInterval", s |-> s]
  /\ Silent
  /\ UNCHANGED validationStreams
  /\ StreamFrame

\* The heartbeat deadline passes: terminate, then onClose with an Error.
PingTimeoutFire(s) ==
  /\ ~MicroPending
  /\ streams[s].pingTimeout = 0
  /\ CallOnClose(s, [terminate(streams[s]) EXCEPT !.pingTimeout = -1],
                 <<"heartbeat">>)
  /\ ev' = [type |-> "pingTimeout", s |-> s]
  /\ Silent
  /\ StreamFrame

\* One tick of the clock: every timer that is set has one tick less to go.
Tick ==
  /\ ~MicroPending
  /\ \E s \in DOMAIN streams : streams[s].pingInterval > 0 \/ streams[s].pingTimeout > 0
  /\ \A s \in DOMAIN streams : streams[s].pingInterval # 0 /\ streams[s].pingTimeout # 0
  /\ streams' = [s \in DOMAIN streams |->
                   [streams[s] EXCEPT
                      !.pingInterval = IF @ > 0 THEN @ - 1 ELSE @,
                      !.pingTimeout = IF @ > 0 THEN @ - 1 ELSE @]]
  /\ ev' = [type |-> "tick"]
  /\ Silent
  /\ UNCHANGED validationStreams
  /\ StreamFrame

\* ------------------------------------------------------------------- Next
Next ==
  \/ Connect
  \/ \E r \in 1..MaxRefresh : RefreshSubscriptions(r)
  \/ \E r \in 1..MaxRefresh, l \in ValidatorLists : GetUNLResponse(r, l)
  \/ \E r \in 1..MaxRefresh : GetUNLFailed(r)
  \/ \E r \in 1..MaxRefresh : GetUNLResume(r)
  \/ \E r \in 1..MaxRefresh, o \in ApiOutcomes : GetUNLNameResponse(r, o)
  \/ \E r \in 1..MaxRefresh, hb \in BOOLEAN : SubscribeToRippleds(r, hb)
  \/ \E s \in 1..MaxRefresh, h \in 1..MaxManifests, msg \in ManifestMessages :
       OnManifestReceived(s, h, msg)
  \/ \E h \in 1..MaxManifests : ManifestResume(h)
  \/ \E s \in 1..MaxRefresh, msg \in ValidationMessages :
       nVotes < MaxVotes /\ OnValidationReceived(s, msg)
  \/ DedupClear
  \/ \E s \in 1..MaxRefresh : WsOpen(s)
  \/ \E s \in 1..MaxRefresh : WsPing(s)
  \/ \E s \in 1..MaxRefresh : WsError(s)
  \/ \E s \in 1..MaxRefresh : WsClose(s)
  \/ \E s \in 1..MaxRefresh : WsResponse(s)
  \/ \E s \in 1..MaxRefresh : WsPong(s)
  \/ \E s \in 1..MaxRefresh : WsUnknownStream(s)
  \/ \E s \in 1..MaxRefresh : PingIntervalFire(s)
  \/ \E s \in 1..MaxRefresh : PingTimeoutFire(s)
  \/ Tick

Spec == Init /\ [][Next]_vars

\* ------------------------------------------------- the registry on its own
\* Network as it builds its streams (no heartbeat option is passed), with
\* the validator lists, the live manifests and the name lookups in any
\* order, overlapping refreshes included.
NextRegistry ==
  \/ Connect
  \/ \E r \in 1..MaxRefresh : RefreshSubscriptions(r)
  \/ \E r \in 1..MaxRefresh, l \in ValidatorLists : GetUNLResponse(r, l)
  \/ \E r \in 1..MaxRefresh : GetUNLFailed(r)
  \/ \E r \in 1..MaxRefresh : GetUNLResume(r)
  \/ \E r \in 1..MaxRefresh, o \in ApiOutcomes : GetUNLNameResponse(r, o)
  \/ \E r \in 1..MaxRefresh : SubscribeToRippleds(r, FALSE)
  \/ \E s \in 1..MaxRefresh, h \in 1..MaxManifests, msg \in ManifestMessages :
       OnManifestReceived(s, h, msg)
  \/ \E h \in 1..MaxManifests : ManifestResume(h)
  \/ \E s \in 1..MaxRefresh : WsOpen(s)
  \/ \E s \in 1..MaxRefresh : WsClose(s)

SpecRegistry == Init /\ [][NextRegistry]_vars

\* ------------------------------------------------- votes of one validator
\* The votes signed with the keys of the first validator, with the lists
\* and live manifests that name it or nobody, the refreshes one after the
\* other, and the stream reopened by a later refresh after a close.
ListsOfFirst ==
  {l \in ValidatorLists :
     \A i \in DOMAIN l.validators : l.validators[i].validation_public_key = 1}
ManifestsOfFirst == {msg \in ManifestMessages : msg.master_key = hexToBase58(1)}

NextVotes ==
  \/ Connect
  \/ \E r \in 1..MaxRefresh : RefreshSubscriptions(r) /\ refresh[r - 1].pc = "done"
  \/ \E r \in 1..MaxRefresh, l \in ListsOfFirst : GetUNLResponse(r, l)
  \/ \E r \in 1..MaxRefresh : GetUNLResume(r)
  \/ \E r \in 1..MaxRefresh : SubscribeToRippleds(r, FALSE)
  \/ \E s \in 1..MaxRefresh, h \in 1..MaxManifests, msg \in ManifestsOfFirst :
       OnManifestReceived(s, h, msg)
  \/ \E h \in 1..MaxManifests : ManifestResume(h)
  \/ \E s \in 1..MaxRefresh, msg \in ValidationMessages :
       nVotes < MaxVotes /\ OnValidationReceived(s, msg)
  \/ DedupClear
  \/ \E s \in 1..MaxRefresh : WsOpen(s)
  \/ \E s \in 1..MaxRefresh : WsClose(s)

SpecVotes == Init /\ [][NextVotes]_vars

\* ------------------------------------------------- the loss of a stream
\* The registry and the votes of the first validator while streams are
\* lost: by an error, by an unknownStream record, by the socket's close.
NextLoss ==
  \/ Connect
  \/ \E r \in 1..MaxRefresh : RefreshSubscriptions(r) /\ refresh[r - 1].pc = "done"
  \/ \E r \in 1..MaxRefresh, l \in ListsOfFirst : GetUNLResponse(r, l)
  \/ \E r \in 1..MaxRefresh : GetUNLResume(r)
  \/ \E r \in 1..MaxRefresh : SubscribeToRippleds(r, FALSE)
  \/ \E s \in 1..MaxRefresh, msg \in ValidationMessages :
       nVotes < MaxVotes /\ OnValidationReceived(s, msg)
  \/ \E s \in 1..MaxRefresh : WsOpen(s)
  \/ \E s \in 1..MaxRefresh : WsError(s)
  \/ \E s \in 1..MaxRefresh : WsUnknownStream(s)
  \/ \E s \in 1..MaxRefresh : WsClose(s)

SpecLoss == Init /\ [][NextLoss]_vars

\* ------------------------------------------------- the stream on its own
\* ValidationStream with either heartbeat option, the clock, and every
\* socket event; the validator lists are empty ones.
EmptyLists == {l \in ValidatorLists : l.validators = <<>>}

NextStream ==
  \/ Connect
  \/ \E r \in 1..MaxRefresh : RefreshSubscriptions(r)
  \/ \E r \in 1..MaxRefresh, l \in EmptyLists : GetUNLResponse(r, l)
  \/ \E r \in 1..MaxRefresh : GetUNLFailed(r)
  \/ \E r \in 1..MaxRefresh, hb \in BOOLEAN : SubscribeToRippleds(r, hb)
  \/ \E s \in 1..MaxRefresh : WsOpen(s)
  \/ \E s \in 1..MaxRefresh : WsPing(s)
  \/ \E s \in 1..MaxRefresh : WsError(s)
  \/ \E s \in 1..MaxRefresh : WsClose(s)
  \/ \E s \in 1..MaxRefresh : WsResponse(s)
  \/ \E s \in 1..MaxRefresh : WsPong(s)
  \/ \E s \in 1..MaxRefresh : WsUnknownStream(s)
  \/ \E s \in 1..MaxRefresh : PingIntervalFire(s)
  \/ \E s \in 1..MaxRefresh : PingTimeoutFire(s)
  \/ Tick

SpecStream == Init /\ [][NextStream]_vars

\* ------------------------------------------------- refreshes that fail
\* The refreshes one after the other, with validator lists in which the
\* manifest of some entry does not decode besides the well-formed ones.
FailingEntryLists ==
  {l \in UNION {[1..n -> Entries \cup MalformedEntries] : n \in 1..MaxEntries} :
     /\ \A i, j \in DOMAIN l :
          l[i].validation_public_key = l[j].validation_public_key => i = j
     /\ \E i \in DOMAIN l : ~Decodes(l[i].manifest)}
FailingLists ==
  {[sequence |-> q, validators |-> l] : q \in 1..MaxListSeq, l \in FailingEntryLists}

NextFailure ==
  \/ Connect
  \/ \E r \in 1..MaxRefresh :
       RefreshSubscriptions(r) /\ refresh[r - 1].pc \in {"done", "failed"}
  \/ \E r \in 1..MaxRefresh, l \in ValidatorLists \cup FailingLists : GetUNLResponse(r, l)
  \/ \E r \in 1..MaxRefresh : GetUNLFailed(r)
  \/ \E r \in 1..MaxRefresh : GetUNLResume(r)
  \/ \E r \in 1..MaxRefresh, o \in ApiOutcomes : GetUNLNameResponse(r, o)
  \/ \E r \in 1..MaxRefresh : SubscribeToRippleds(r, FALSE)

SpecFailure == Init /\ [][NextFailure]_vars

\* ------------------------------------------------- the sweep on its own
\* One stream and the votes one validator signs with its master key, at
\* each of the signing times, with the sweep at any moment between them.
SweepMessages ==
  {msg \in ValidationMessages : msg.validation_public_key = hexToBase58(1)}

NextDedup ==
  \/ Connect
  \/ \E l \in EmptyLists : GetUNLResponse(1, l)
  \/ SubscribeToRippleds(1, FALSE)
  \/ WsOpen(1)
  \/ \E msg \in SweepMessages : OnValidationReceived(1, msg)
  \/ DedupClear
  \/ WsClose(1)

SpecDedup == Init /\ [][NextDedup]_vars

\* ------------------------------------------------- a series of refreshes
\* Refreshes one after the other, each completed before the next is
\* called, with the lists that name the first validator or nobody, and
\* the live manifests of that validator.
StartupLists ==
  {[sequence |-> q, validators |-> l.validators] :
     q \in 1..MaxStartupSeq, l \in ListsOfFirst}

NextStartup ==
  \/ Connect
  \/ \E r \in 1..MaxCalls : RefreshSubscriptions(r) /\ refresh[r - 1].pc = "done"
  \/ \E r \in 1..MaxCalls, l \in StartupLists : GetUNLResponse(r, l)
  \/ \E r \in 1..MaxCalls : GetUNLResume(r)
  \/ \E r \in 1..MaxCalls : SubscribeToRippleds(r, FALSE)
  \/ \E s \in 1..MaxCalls, h \in 1..MaxManifests, msg \in ManifestsOfFirst :
       OnManifestReceived(s, h, msg)
  \/ \E h \in 1..MaxManifests : ManifestResume(h)
  \/ \E s \in 1..MaxCalls : WsOpen(s)

SpecStartup == Init /\ [][NextStartup]_vars

\* ================================================================ claims
\* C1 as stated: a stream calls onClose once, and a closed one has.
C1_OnCloseOnce ==
  \A s \in DOMAIN streams :
    /\ Len(streams[s].closes) <= 1
    /\ streams[s].state = "CLOSED" => Len(streams[s].closes) = 1

\* The onClose calls of stream s that the socket's 'close' event made.
ByCloseEvent(s) == {i \in DOMAIN streams[s].closes : streams[s].closes[i] = "close"}

\* C1 as amended: the socket's 'close' event calls onClose exactly once
\* and an 'error' event never does, so a stream that was not terminated
\* by force calls it once; every forced termination calls it at once with
\* an Error, before the call of the 'close' event that follows.
C1_OnCloseCalls ==
  \A s \in DOMAIN streams :
    LET st == streams[s]
        c == st.closes
    IN  /\ st.state \in {"none", "CONNECTING", "OPEN"} => c = <<>>
        /\ st.state = "CLOSING" => ByCloseEvent(s) = {}
        /\ st.state = "CLOSED" => ByCloseEvent(s) = {Len(c)}
        /\ ~st.terminated => Len(c) <= 1
        /\ st.terminated => Len(c) >= 1 /\ c[1] # "close"
        /\ st.terminated /\ st.state = "CLOSED" => Len(c) >= 2

\* C1: a stream terminated for lack of heartbeat has closed: onClose was
\* called with the Error and again by the 'close' event.
C1_Witness ==
  \E s \in DOMAIN streams :
    /\ streams[s].state = "CLOSED"
    /\ streams[s].closes = <<"heartbeat", "close">>

\* No getUNL is between two of its steps.
GetUNLComplete == \A r \in DOMAIN refresh : refresh[r].pc # "fetchName"

IndexEntriesOf(m) == {k \in DOMAIN manifestKeys : manifestKeys[k] = m}

\* C2: once the refreshes under way have completed, every identity of the
\* table has exactly one index entry, the one of its current signing key.
C2_InverseIndexConsistent ==
  GetUNLComplete =>
    \A m \in DOMAIN validators : IndexEntriesOf(m) = {validators[m].signing_key}

StoredIsMaxSeen ==
  \A m \in DOMAIN validators :
    /\ Has(maxSeen, m)
    /\ validators[m].Sequence = maxSeen[m]
    /\ \E h \in MasterHex :
         /\ hexToBase58(h) = m
         /\ validators[m].signing_key = hexToBase58(SigningPubKey(h, maxSeen[m]))

SequenceStep ==
  \A m \in (DOMAIN validators) \cap (DOMAIN validators') :
    /\ validators'[m].Sequence >= validators[m].Sequence
    /\ validators'[m] # validators[m] => validators'[m].Sequence > validators[m].Sequence

\* C3: while an identity is in the table its Sequence never decreases, its
\* record changes only to a strictly greater Sequence, and the record is
\* the one of the greatest Sequence offered for it so far.
C3_Monotonicity == [](StoredIsMaxSeen) /\ [][SequenceStep]_vars

\* C3: a live manifest older than the stored one has just been dropped.
C3_Witness ==
  /\ ev.type = "manifest"
  /\ Has(validators, ev.msg.master_key)
  /\ ev.msg.seq < validators[ev.msg.master_key].Sequence

\* C4: when an accepted refresh has completed and no other one is under
\* way, the table holds exactly the members of the accepted list.
C4_MembershipIsSnapshot ==
  (/\ ev.type \in {"unlResponse", "unlResume"}
   /\ ev.finished
   /\ lastValidatorListSequence > 0
   /\ GetUNLComplete)
  => DOMAIN validators = latest

EntryMaster(e) == hexToBase58(e.validation_public_key)

C5_Step ==
  ev'.type \in {"unlResponse", "unlResume"} =>
    /\ \A i \in DOMAIN ev'.passed :
         LET m == EntryMaster(ev'.passed[i])
         IN  /\ Has(validators, m)
             /\ validators[m].Sequence >= ev'.passed[i].manifest.Sequence
             /\ Has(validators', m)
             /\ validators'[m] = validators[m]
    /\ \A i \in DOMAIN ev'.applied :
         LET m == EntryMaster(ev'.applied[i])
             pending == refresh'[ev'.r].cur
         IN  /\ ~Has(validators, m)
                  \/ validators[m].Sequence < ev'.applied[i].manifest.Sequence
             /\ Len(pending) = 1
             /\ pending[1].validation_public_key_base58 = m
             /\ pending[1].isNewValidator = ~Has(validators, m)
             /\ pending[1].isNewManifest
             /\ pending[1].Sequence = ev'.applied[i].manifest.Sequence
    /\ ev'.type = "unlResponse" => unlData' = <<>>
    /\ ev'.type = "unlResume" =>
         /\ Len(unlData') = 1
         /\ LET cur == refresh[ev'.r].cur[1]
            IN  /\ unlData'[1].validation_public_key_base58 = cur.validation_public_key_base58
                /\ unlData'[1].isNewValidator = cur.isNewValidator
                /\ unlData'[1].isNewManifest = cur.isNewManifest
                /\ unlData'[1].Sequence = cur.Sequence

\* C5: getUNL notifies for an entry exactly when its identity was absent
\* or had a strictly lower Sequence, with isNewValidator telling which and
\* isNewManifest true; an entry with no later manifest is passed over, its
\* record kept, and nothing is emitted for it.
C5_NotifyIffNewer == [][C5_Step]_vars

\* C5: a refresh of a table that held other identities has completed: one
\* identity was removed, one was kept, and the new one has been notified.
C5_Witness ==
  /\ ev.type = "unlResume" /\ ev.finished
  /\ ev.removed # {}
  /\ Len(unlData) = 1 /\ unlData[1].isNewValidator /\ ~unlData[1].isDuringStartup
  /\ \E m \in DOMAIN validators :
       m # unlData[1].validation_public_key_base58 /\ Has(manifestKeys, validators[m].signing_key)

C6_Step ==
  (ev'.type = "unlResponse" /\ ev'.doc[1].sequence <= lastValidatorListSequence) =>
    /\ UNCHANGED <<validators, manifestKeys, lastValidatorListSequence>>
    /\ unlData' = <<>>
    /\ refresh'[ev'.r].pc = "subscribe"
    /\ refresh'[ev'.r].cur = <<>>

\* C6: a list whose sequence is not above the last accepted one changes
\* neither the table, the index nor the accepted sequence, emits nothing,
\* and getUNL resolves.
C6_StaleIsNoOp == [][C6_Step]_vars

\* C6: a stale list that differs from the table has just been ignored.
C6_Witness ==
  /\ ev.type = "unlResponse"
  /\ ev.doc[1].sequence <= lastValidatorListSequence
  /\ ev.applied = <<>> /\ ev.passed = <<>>
  /\ validators # EmptyMap
  /\ Members(ev.doc[1].validators) # DOMAIN validators
  /\ refresh[ev.r].pc = "subscribe"

C7_Step ==
  /\ ev'.type = "manifest" =>
       LET msg == ev'.msg
           m == msg.master_key
           h == handlers'[ev'.h]
       IN  IF Has(validators, m) /\ validators[m].Sequence < msg.seq
           THEN /\ validators' = Put(validators, m, [signing_key |-> msg.signing_key,
                                                     Sequence |-> msg.seq])
                /\ ~Has(manifestKeys', validators[m].signing_key)
                /\ Get(manifestKeys', msg.signing_key) = m
                /\ \A k \in DOMAIN manifestKeys' \ {msg.signing_key} :
                     Get(manifestKeys, k) = manifestKeys'[k]
                /\ h.pc = "fetchName"
                /\ h.cur = <<[isDuringStartup |-> FALSE, isNewValidator |-> FALSE,
                              isNewManifest |-> TRUE,
                              validation_public_key_base58 |-> m,
                              signing_key |-> msg.signing_key, Sequence |-> msg.seq,
                              isFromManifestsStream |-> TRUE]>>
                /\ unlData' = <<>>
           ELSE /\ UNCHANGED <<validators, manifestKeys, lastValidatorListSequence>>
                /\ h.pc = "done"
                /\ unlData' = <<>>
  /\ ev'.type = "manifestResume" =>
       LET cur == handlers[ev'.h].cur[1]
       IN  /\ Len(unlData') = 1
           /\ ~unlData'[1].isNewValidator
           /\ unlData'[1].isNewManifest
           /\ unlData'[1].isFromManifestsStream
           /\ unlData'[1].Sequence = cur.Sequence
           /\ unlData'[1].signing_key = cur.signing_key
           /\ unlData'[1].validation_public_key_base58 = cur.validation_public_key_base58
           /\ handlers'[ev'.h].pc = "done"
           /\ UNCHANGED <<validators, manifestKeys, lastValidatorListSequence>>

\* C7: a live manifest is applied only for a known master and a strictly
\* greater seq: the old key's entry goes, the new one comes, and the one
\* notification (isNewValidator false, isNewManifest true, from the
\* manifests stream, Sequence = seq) is emitted when the name arrives;
\* any other manifest changes nothing and emits nothing.
C7_LiveManifest == [][C7_Step]_vars

\* C7: the notification of an applied live manifest has just been emitted.
C7_Witness ==
  /\ ev.type = "manifestResume"
  /\ Len(unlData) = 1 /\ unlData[1].isFromManifestsStream
  /\ Get(manifestKeys, unlData[1].signing_key) = unlData[1].validation_public_key_base58

\* The six fields the claim names.
six(msg) ==
  <<msg.ledger_hash, msg.ledger_index, msg.signing_time, msg.validation_public_key,
    msg.signature, msg.flags>>

\* C8 as stated: of the votes that agree in the six fields, received with
\* no sweep forgetting them in between, one is forwarded and only once.
C8_SixFieldDedup ==
  \A a, b \in DOMAIN deliveries :
    six(a) = six(b) => a = b /\ Len(deliveries[a]) <= 1

\* C8 as amended: a vote is forwarded at most once while its fingerprint
\* (the serialization of all its fields) is in the window, and a vote that
\* passes the admission test has then been forwarded exactly once.
C8_ExactDuplicates ==
  /\ \A msg \in DOMAIN deliveries : Len(deliveries[msg]) = 1
  /\ (ev.type = "vote" /\ ~(require_master_key
                            /\ ~Has(manifestKeys, ev.msg.validation_public_key)))
       => Has(deliveries, ev.msg)

\* C8: the copy of a vote that the first connection forwarded has just
\* arrived on the second connection and was suppressed.
C8_Witness ==
  /\ ev.type = "vote" /\ ev.s = 2
  /\ delivered = <<>>
  /\ Has(deliveries, ev.msg) /\ deliveries[ev.msg] = <<1>>

\* C9: with require_master_key, a vote whose key has no index entry when
\* it arrives is not forwarded.
C9_AdmissionFilter ==
  (/\ ev.type = "vote"
   /\ require_master_key
   /\ ~Has(manifestKeys, ev.msg.validation_public_key))
  => delivered = <<>>

\* C9: such a vote has just been dropped although the index has entries,
\* and its fingerprint was not recorded.
C9_Witness ==
  /\ ev.type = "vote"
  /\ require_master_key
  /\ ~Has(manifestKeys, ev.msg.validation_public_key)
  /\ DOMAIN manifestKeys # {}
  /\ stringify(ev.msg) \notin dedup_validations_set

\* C10: a forwarded vote carries the index's master key for its signing
\* key, and isOnUNL tells whether that master key is in the table.
C10_Enrichment ==
  \A i \in DOMAIN delivered :
    LET vote == delivered[i]
    IN  /\ vote.msg = ev.msg
        /\ vote.master_key = Get(manifestKeys, vote.msg.validation_public_key)
        /\ vote.isOnUNL = (vote.master_key \in DOMAIN validators)
        /\ ~Has(manifestKeys, vote.msg.validation_public_key) => ~vote.isOnUNL

\* C10: a vote was forwarded whose key the index still resolves to an
\* identity that a refresh has removed from the table.
C10_Witness ==
  /\ Len(delivered) = 1
  /\ delivered[1].master_key # undefined
  /\ ~delivered[1].isOnUNL

\* C10: a vote of an identity in the table was forwarded.
C10_WitnessOnUNL ==
  /\ Len(delivered) = 1
  /\ delivered[1].isOnUNL

\* C11: when the first refresh has failed and no later one has started,
\* the table, the index and the accepted list sequence are those the
\* Network was constructed with, so the same list is still acceptable.
C11_FailedRefreshLeavesNoTrace ==
  (/\ refresh[1].pc = "failed"
   /\ \A r \in 2..MaxRefresh : refresh[r].pc = "idle")
  => /\ validators = EmptyMap
     /\ manifestKeys = EmptyMap
     /\ lastValidatorListSequence = 0

\* C12: a notification for an identity whose name is in the cache carries
\* that name, on the first fetchName call for the identity and on every
\* later one.
C12_CachedNameReturned ==
  \A i \in DOMAIN unlData :
    Has(names, unlData[i].validation_public_key_base58)
      => unlData[i].validatorName = names[unlData[i].validation_public_key_base58]

\* The calls that wait for the Data API, and the identity each asks about.
Lookups(rf, hd) ==
  {<<"getUNL", r>> : r \in {x \in DOMAIN rf : rf[x].pc = "fetchName" /\ rf[x].wait = "http"}}
  \cup {<<"manifest", h>> : h \in {x \in DOMAIN hd : hd[x].pc = "fetchName" /\ hd[x].wait = "http"}}
LookupKey(rf, hd, c) ==
  IF c[1] = "getUNL" THEN rf[c[2]].cur[1].validation_public_key_base58
  ELSE hd[c[2]].cur[1].validation_public_key_base58

C13_Step ==
  /\ attempted \subseteq attempted'
  /\ \A c \in Lookups(refresh', handlers') :
       LET m == LookupKey(refresh', handlers', c)
       IN  \/ /\ c \in Lookups(refresh, handlers)
              /\ LookupKey(refresh, handlers, c) = m
              /\ c[1] = "getUNL" => refresh'[c[2]] = refresh[c[2]]
              /\ c[1] = "manifest" => handlers'[c[2]] = handlers[c[2]]
           \/ /\ m \notin attempted
              /\ m \in attempted'
              /\ \A d \in Lookups(refresh', handlers') \ {c} :
                   LookupKey(refresh', handlers', d) # m
  /\ \A i \in DOMAIN unlData' :
       LET m == unlData'[i].validation_public_key_base58
       IN  /\ m \in attempted
           /\ unlData'[i].validatorName \in {m, NameOf(m)}
           /\ ~Has(names', m) => unlData'[i].validatorName = m

\* C13: the Data API is asked about an identity only by a fetchName call
\* that finds it not yet attempted, and the call marks it attempted for
\* good, so each identity is asked about at most once, also while an
\* earlier request for it is pending; a call whose request fails or finds
\* no domain gives the identity itself, and no later call asks again.
C13_LookupAtMostOnce == [][C13_Step]_vars

\* C13: a second refresh called fetchName for an identity whose request
\* by the first refresh is still pending, and got the identity at once.
C13_Witness ==
  \E r1, r2 \in DOMAIN refresh :
    /\ refresh[r1].pc = "fetchName" /\ refresh[r1].wait = "http"
    /\ refresh[r2].pc = "fetchName" /\ refresh[r2].wait = "micro"
    /\ refresh[r2].cur[1].validation_public_key_base58
         = refresh[r1].cur[1].validation_public_key_base58
    /\ refresh[r2].name = refresh[r2].cur[1].validation_public_key_base58

C14_Step ==
  /\ ev'.type = "open" /\ streams'[ev'.s].useHeartbeat
       => streams'[ev'.s].pingTimeout = serverPingInterval + latency
  /\ ev'.type = "tick" =>
       \A s \in DOMAIN streams :
         /\ streams[s].pingTimeout # 0
         /\ streams[s].pingTimeout > 0
              => streams'[s].pingTimeout = streams[s].pingTimeout - 1
  /\ \A s \in DOMAIN streams :
       streams'[s].pingTimeout > streams[s].pingTimeout
         => /\ ev'.type \in {"open", "ping"} /\ ev'.s = s
            /\ streams'[s].pingTimeout = serverPingInterval + latency
  /\ ev'.type = "pingTimeout" =>
       LET s == ev'.s
       IN  /\ streams[s].useHeartbeat
           /\ streams[s].pingTimeout = 0
           /\ streams'[s].terminated
           /\ streams'[s].state \in {"CLOSING", "CLOSED"}
           /\ streams[s].state = "OPEN" => streams'[s].state = "CLOSING"
           /\ streams'[s].closes = Append(streams[s].closes, "heartbeat")
           /\ "heartbeat" \notin Range(CloseHandlers(streams[s]))

\* C14: with heartbeat, 'open' sets the deadline serverPingInterval +
\* latency ahead; only 'open' and 'ping' move it; time does not pass the
\* deadline: when it is reached the timer fires, the socket is terminated
\* (not closed gracefully) and onClose is called with the heartbeat Error,
\* which is not the {code, reason} of the socket's 'close' event.
C14_HeartbeatTimeout == [][C14_Step]_vars

\* C14: an open stream has just been terminated for lack of heartbeat,
\* with no onClose call before this one.
C14_Witness ==
  /\ ev.type = "pingTimeout"
  /\ streams[ev.s].state = "CLOSING"
  /\ streams[ev.s].closes = <<"heartbeat">>

C15_Step ==
  (/\ ev'.type \in {"ping", "pong", "response"}
   /\ streams[ev'.s].useHeartbeat)
  => streams'[ev'.s].pingTimeout = serverPingInterval + latency

\* C15: with heartbeat, an inbound ping, the pong to a ping sent, and an
\* inbound data message each set the deadline serverPingInterval + latency
\* ahead.
C15_SignalsResetDeadline == [][C15_Step]_vars

C16_Step ==
  ev'.type = "unknownStream" =>
    LET s == ev'.s
    IN  /\ streams[s].state = "OPEN"
        /\ streams'[s].state = "CLOSING" /\ streams'[s].terminated
        /\ streams'[s].closes = Append(streams[s].closes, "unknownStream")
        /\ "unknownStream" \notin Range(CloseHandlers(streams[s]))
        /\ \A t \in DOMAIN streams \ {s} : streams'[t] = streams[t]
        /\ validationStreams' = 0
        /\ UNCHANGED <<validators, manifestKeys, lastValidatorListSequence,
                       dedup_validations_set, dedup_last_signing_time,
                       names, attempted, refresh, handlers>>
        /\ unlData' = <<>> /\ delivered' = <<>>

Notifying == {s \in DOMAIN streams : Len(streams'[s].closes) > Len(streams[s].closes)}

C17_Step ==
  /\ Notifying # {} =>
       /\ validationStreams' = 0
       /\ UNCHANGED <<validators, manifestKeys, lastValidatorListSequence,
                      dedup_validations_set, dedup_last_signing_time,
                      names, attempted, refresh, handlers>>
  /\ validationStreams' # validationStreams =>
       \/ Notifying # {} /\ validationStreams' = 0
       \/ /\ ev'.type = "subscribe"
          /\ validationStreams = 0 /\ validationStreams' = ev'.r
          /\ refresh[ev'.r].pc = "subscribe"
          /\ streams[ev'.r].state = "none"
  /\ \A s \in DOMAIN streams :
       /\ streams[s].state = "none" /\ streams'[s].state # "none"
            => ev'.type = "subscribe" /\ ev'.r = s /\ validationStreams = 0
       /\ streams[s].state = "CLOSED" => streams'[s].state = "CLOSED"

\* C17: an onClose call removes the registration of the address when it
\* has one and changes nothing of the registry when it has none; a stream
\* is made only by the subscribeToRippleds step of a refreshSubscriptions()
\* call that finds the address unregistered, never by the loss itself, and
\* a closed stream stays closed.
C17_StreamLoss == [][C17_Step]_vars

\* C17: the 'close' event of a stream that an unknownStream record had
\* already deregistered has just called onClose again; the address has no
\* registration, and no call is under way that would make a new stream.
C17_Witness ==
  /\ ev.type = "close"
  /\ streams[ev.s].closes = <<"unknownStream", "close">>
  /\ validationStreams = 0
  /\ \A r \in DOMAIN refresh : refresh[r].pc \in {"idle", "done"}
  /\ validators # EmptyMap

\* The 'close' event of a stream lost earlier has just removed the
\* registration of the stream made since, which is still connected.
StaleCloseOfEarlierStream ==
  /\ ev.type = "close"
  /\ validationStreams = 0
  /\ \E t \in DOMAIN streams :
       t # ev.s /\ streams[t].state \in {"CONNECTING", "OPEN"} /\ streams[t].closes = <<>>

\* C18: in every state in which an event handler can be dispatched (no
\* call waits in the microtask queue), the suspension of getUNL at its
\* name request included, the current signing key of every identity in
\* the table is in the index and resolves to that identity.
C18_NoPartialMutation ==
  ~MicroPending =>
    \A m \in DOMAIN validators : Get(manifestKeys, validators[m].signing_key) = m

\* No getUNL call is under way.
RefreshesSettled ==
  \A r \in DOMAIN refresh : refresh[r].pc \notin {"getUNL", "fetchName"}

\* C19: with refreshes that may overlap, once every getUNL call has
\* completed the table holds exactly the members of the accepted list of
\* the highest sequence.
C19_OverlapIsSafe ==
  (RefreshesSettled /\ lastValidatorListSequence > 0) => DOMAIN validators = latest

C20_Step ==
  ev'.type \in {"pingInterval", "pingTimeout"} => ~streams[ev'.s].terminated

\* C20: no ping timer and no deadline timer of a stream fires once the
\* stream has been terminated by force.
C20_TerminationCancelsTimers == [][C20_Step]_vars

\* C21 as stated: whatever becomes of a vote, the watermark after it is
\* the greater of the watermark before it and its signing_time (so the
\* greatest signing_time received), and no other step changes it.
C21_WatermarkOfAllVotes ==
  [][IF ev'.type = "vote"
     THEN dedup_last_signing_time' =
            IF dedup_last_signing_time < ev'.msg.signing_time
            THEN ev'.msg.signing_time ELSE dedup_last_signing_time
     ELSE dedup_last_signing_time' = dedup_last_signing_time]_vars

\* The vote handled by the step is dropped by the admission test.
DroppedUnheard ==
  require_master_key /\ ~Has(manifestKeys, ev'.msg.validation_public_key)

C21_Step ==
  /\ dedup_last_signing_time' >= dedup_last_signing_time
  /\ ev'.type # "vote" => dedup_last_signing_time' = dedup_last_signing_time
  /\ ev'.type = "vote" /\ DroppedUnheard
       => dedup_last_signing_time' = dedup_last_signing_time
  /\ ev'.type = "vote" /\ ~DroppedUnheard =>
       /\ dedup_last_signing_time' >= ev'.msg.signing_time
       /\ dedup_last_signing_time' \in {dedup_last_signing_time, ev'.msg.signing_time}

\* C21 as amended: a vote that passes the admission test, forwarded or
\* suppressed as a duplicate, leaves the watermark at the greater of its
\* former value and the vote's signing_time; a vote the admission test
\* drops leaves it unchanged; so the watermark is the greatest
\* signing_time of the admitted votes, never decreases, and is not
\* changed by the sweep or by any other step.
C21_WatermarkOfAdmittedVotes == [][C21_Step]_vars

\* C21: a vote signed later than the watermark has just been dropped by
\* the admission test, and the watermark stayed behind it.
C21_Witness ==
  /\ ev.type = "vote"
  /\ require_master_key /\ ~Has(manifestKeys, ev.msg.validation_public_key)
  /\ dedup_last_signing_time < ev.msg.signing_time
  /\ dedup_validations_set # {}

C22_Step ==
  /\ ev'.type = "dedup_clear" =>
       \A value \in dedup_validations_set :
         value \in dedup_validations_set'
           <=> ~(value[7] + delete_from_dedup_after_seconds < dedup_last_signing_time)
  /\ ev'.type = "dedup_clear" => dedup_validations_set' \subseteq dedup_validations_set
  /\ ev'.type # "dedup_clear" => dedup_validations_set \subseteq dedup_validations_set'
  /\ (/\ ev'.type = "vote"
      /\ stringify(ev'.msg) \in dedup_validations_set)
     => /\ delivered' = <<>>
        /\ dedup_validations_set' = dedup_validations_set

\* C22: the sweep removes exactly the fingerprints whose signing_time plus
\* the window is below the watermark; no other step removes a fingerprint,
\* and a vote whose fingerprint is in the set is suppressed however old it
\* is.
C22_SweepOnly == [][C22_Step]_vars

\* C22: the copy of a vote more than a window behind the watermark, not
\* swept yet, has just been suppressed.
C22_Witness ==
  /\ ev.type = "vote"
  /\ delivered = <<>>
  /\ stringify(ev.msg) \in dedup_validations_set
  /\ ev.msg.signing_time + delete_from_dedup_after_seconds < dedup_last_signing_time

\* getUNL calls fetchName for every entry it applies and attempted only
\* grows: it is non-empty once a reconciliation has applied an entry of a
\* non-empty list.
SomeReconciled == attempted # {}

C23_Step ==
  /\ \A r \in DOMAIN refresh :
       (refresh[r].pc = "getUNL" /\ refresh'[r].pc = "fetchName")
         => refresh'[r].cur[1].isDuringStartup = ~SomeReconciled
  /\ \A r \in DOMAIN refresh :
       (refresh[r].pc = "fetchName" /\ refresh'[r].pc = "fetchName")
         => refresh'[r].cur[1].isDuringStartup = refresh[r].cur[1].isDuringStartup
  /\ \A i \in DOMAIN unlData' :
       /\ ev'.type = "manifestResume" => ~unlData'[i].isDuringStartup
       /\ ev'.type = "unlResume"
            => unlData'[i].isDuringStartup = refresh[ev'.r].cur[1].isDuringStartup

\* C23: the notifications of a refresh carry isDuringStartup = true only
\* if no earlier reconciliation has processed a non-empty list, also when
\* an earlier refresh has left the table empty; the notification of a live
\* manifest carries false.
C23_StartupOnlyFirst == [][C23_Step]_vars

\* C24: every entry of the index points at an identity of the table, so
\* the keys of an identity that a refresh removed resolve to nothing.
C24_IndexPointsIntoTable ==
  \A k \in DOMAIN manifestKeys : Has(validators, manifestKeys[k])

C25_Step ==
  \A i \in DOMAIN unlData' :
    LET m == unlData'[i].validation_public_key_base58
    IN  /\ Has(notified, m) => notified[m] < unlData'[i].Sequence
        /\ Has(validators', m) =>
             /\ validators'[m].Sequence = unlData'[i].Sequence
             /\ validators'[m].signing_key = unlData'[i].signing_key

\* C25: each onUnlData call for a master key carries a Sequence above the
\* one of the call before it for that key, and the record stored for the
\* key when the call is made.
C25_NotificationsInOrder == [][C25_Step]_vars

====
